---------------------------- MODULE Spec2Model ----------------------------
(***************************************************************************)
(* Model of the pipeline engine of src/backup_server.py: the path          *)
(* resolver (prune_redundant_paths), the pipeline builders                 *)
(* (build_backup_pipeline, build_extraction_pipeline), the stage monitors  *)
(* (monitor_process_stderr, monitor_pv_progress), the naming of archives   *)
(* (generate_backup_filename), the executors (run_backup_task,             *)
(* run_extraction_task) and the entry points that start backup runs        *)
(* (start_local_backup, download_backup).                                  *)
(*                                                                         *)
(* Specifications: SpecPrune (path resolver), Spec (one backup request),   *)
(* SpecMonitor (one stage monitor), SpecExtract (one restore run) and      *)
(* SpecPv (the progress monitor).                                          *)
(***************************************************************************)
EXTENDS Integers, Sequences, FiniteSets, TLC

VARIABLES
    \* ---- path resolver (specification SpecPrune) ----
    paths,            \* the list handed to prune_redundant_paths
    pruned,           \* prune_redundant_paths(paths)
    repruned,         \* prune_redundant_paths(pruned)
    phase,            \* "input" | "pruned" | "repruned" | "off"
    \* ---- one backup request (specification Spec) ----
    cfg,              \* the run configuration of the request
    pc,               \* position of the thread that executes the request
    procs,            \* stage slot -> state of the OS process spawned for it
    built,            \* build_backup_pipeline's local list `processes`
    processes,        \* run_backup_task's / download_backup's `processes`
    error_event,      \* threading.Event of the run: is_set()
    failed_files,     \* the run's failed-items list
    monitor,          \* state of the archiver's monitor thread
    nlines,           \* diagnostic lines the archiver's monitor has read
    exit_codes,       \* run_backup_task's dict exit_codes (name -> code)
    idx,              \* loop index over `processes` (wait / cleanup loops)
    pipeline_success, \* run_backup_task's flag
    file_exists,      \* os.path.exists(output_path)
    dest,             \* number of chunks written to the destination
    emitted,          \* sequence of backup_complete statuses emitted
    logs,             \* warnings log_event has issued in the current run
    subdir_i,         \* start_local_backup: index of the subdirectory run
    completed,        \* start_local_backup: counter `completed`
    late_writes,      \* chunks written since error_event was set
    estimate,         \* build_backup_pipeline: the size-estimation step
    relay,            \* the thread copying zstd's output to age's input
    archives,         \* names of the files in BACKUPS_PATH
    copied,           \* copy loop: chunks read so far, end-of-stream seen
    \* ---- one restore run (specification SpecExtract) ----
    next_input,       \* build_extraction_pipeline's local `next_input`
    xmonitors,        \* stream names of the monitor threads it has started
    \* ---- one monitor thread (specification SpecMonitor) ----
    margs,            \* the arguments monitor_process_stderr was called with
    mline,            \* the line its loop has read last
    mproc,            \* the monitored process: its command and how it was built
    file_processed,   \* the filenames of the file_processed events emitted
    \* ---- the progress monitor (specification SpecPv) ----
    pv_line,          \* the line monitor_pv_progress has read last
    progress          \* the progress_update snapshots published so far

pruneVars == <<paths, pruned, repruned, phase>>
runVars == <<cfg, pc, procs, built, processes, error_event, failed_files,
             monitor, nlines, exit_codes, idx, pipeline_success, file_exists,
             dest, emitted, logs, subdir_i, completed,
             late_writes, estimate, relay, archives, copied>>
monVars == <<margs, mline, mproc, file_processed>>
pvVars == <<pv_line, progress>>
sideVars == <<monVars, pvVars>>
xVars == <<next_input, xmonitors>>
\* The variables a backup request leaves alone.
offVars == <<pruneVars, sideVars, xVars>>
vars == <<pruneVars, runVars, sideVars, xVars>>

-----------------------------------------------------------------------------
(***************************************************************************)
(* Path resolver.  A path is a sequence of characters.                     *)
(***************************************************************************)

\* Bounds of the path-resolver specification.
MaxChars == 5
MaxPaths == 3

Alphabet == {"/", "a", "."}

\* Code point of a character: str comparison in sorted() is by code point.
Ord(c) == CASE c = "." -> 46 [] c = "/" -> 47 [] c = "a" -> 97

Sep == "/"

\* os.getcwd(): the working directory relative paths are resolved against.
Cwd == <<"/", "a">>

Last(s) == s[Len(s)]

Front(s) == SubSeq(s, 1, Len(s) - 1)

\* str.startswith
StartsWith(s, prefix) ==
    /\ Len(prefix) <= Len(s)
    /\ SubSeq(s, 1, Len(prefix)) = prefix

\* str < str : lexicographic by code point, a proper prefix sorts first.
RECURSIVE StrLess(_, _)
StrLess(s, t) ==
    IF t = <<>> THEN FALSE
    ELSE IF s = <<>> THEN TRUE
    ELSE IF Ord(Head(s)) # Ord(Head(t)) THEN Ord(Head(s)) < Ord(Head(t))
    ELSE StrLess(Tail(s), Tail(t))

\* path.split('/') : the components between separators (empty ones kept).
RECURSIVE SplitSep(_, _)
SplitSep(s, cur) ==
    IF s = <<>> THEN <<cur>>
    ELSE IF Head(s) = Sep THEN <<cur>> \o SplitSep(Tail(s), <<>>)
    ELSE SplitSep(Tail(s), Append(cur, Head(s)))

\* The loop of posixpath.normpath over the components of an absolute path
\* (initial_slashes is truthy): '' and '.' are skipped, '..' pops a
\* component or, at the root, is dropped.
RECURSIVE NormComps(_, _)
NormComps(comps, acc) ==
    IF comps = <<>> THEN acc
    ELSE LET c == Head(comps) IN
         IF c = <<>> \/ c = <<".">> THEN NormComps(Tail(comps), acc)
         ELSE IF c # <<".", ".">> \/ (acc # <<>> /\ Last(acc) = <<".", ".">>)
              THEN NormComps(Tail(comps), Append(acc, c))
         ELSE IF acc # <<>> THEN NormComps(Tail(comps), Front(acc))
         ELSE NormComps(Tail(comps), acc)

\* '/'.join(comps)
RECURSIVE JoinSep(_)
JoinSep(comps) ==
    IF comps = <<>> THEN <<>>
    ELSE IF Len(comps) = 1 THEN comps[1]
    ELSE comps[1] \o <<Sep>> \o JoinSep(Tail(comps))

\* posixpath.normpath of an absolute path: exactly two leading slashes are
\* kept, any other number collapses to one.
normpath(p) ==
    LET two == StartsWith(p, <<Sep, Sep>>) /\ ~StartsWith(p, <<Sep, Sep, Sep>>)
        lead == IF two THEN <<Sep, Sep>> ELSE <<Sep>>
    IN  lead \o JoinSep(NormComps(SplitSep(p, <<>>), <<>>))

\* abspath that joins every path, absolute or not, to the working directory.
abspath_always_joined(p) == normpath(Cwd \o <<Sep>> \o p)

\* os.path.abspath: join a relative path to the working directory, normalise.
abspath(p) ==
    IF StartsWith(p, <<Sep>>) THEN normpath(p)
    ELSE normpath(Cwd \o <<Sep>> \o p)

Range(s) == {s[i] : i \in 1..Len(s)}

\* sorted(list(S)) for a set of strings.
RECURSIVE SortedSeq(_)
SortedSeq(S) ==
    IF S = {} THEN <<>>
    ELSE LET m == CHOOSE x \in S : \A y \in S \ {x} : StrLess(x, y)
         IN  <<m>> \o SortedSeq(S \ {m})

\* The filter of prune_redundant_paths: an earlier element that is a parent.
HasParentBefore(sorted_paths, i) ==
    \E j \in 1..(i - 1) :
        StartsWith(sorted_paths[i], sorted_paths[j] \o <<Sep>>)

RECURSIVE KeepFrom(_, _)
KeepFrom(sorted_paths, i) ==
    IF i > Len(sorted_paths) THEN <<>>
    ELSE IF HasParentBefore(sorted_paths, i)
         THEN KeepFrom(sorted_paths, i + 1)
         ELSE <<sorted_paths[i]>> \o KeepFrom(sorted_paths, i + 1)

prune_redundant_paths(ps) ==
    IF ps = <<>> THEN <<>>
    ELSE KeepFrom(SortedSeq({abspath(p) : p \in Range(ps)}), 1)

TotalChars(ps) ==
    LET RECURSIVE Sum(_)
        Sum(i) == IF i = 0 THEN 0 ELSE Len(ps[i]) + Sum(i - 1)
    IN  Sum(Len(ps))

-----------------------------------------------------------------------------
(***************************************************************************)
(* Specification SpecPrune: the caller assembles a list of requested       *)
(* paths, prune_redundant_paths is applied to it, then to its own result.  *)
(***************************************************************************)

\* Values the variables of a backup request hold while none is modelled.
\* The copy loop has read nothing.
NothingCopied == [n |-> 0, eof |-> FALSE]

RunIdle ==
    /\ cfg = [entry |-> "none"]
    /\ pc = "off"
    /\ procs = <<>>
    /\ built = <<>>
    /\ processes = <<>>
    /\ error_event = FALSE
    /\ failed_files = <<>>
    /\ monitor = "off"
    /\ nlines = 0
    /\ exit_codes = <<>>
    /\ idx = 0
    /\ pipeline_success = FALSE
    /\ file_exists = FALSE
    /\ dest = 0
    /\ emitted = <<>>
    /\ logs = {}
    /\ subdir_i = 0
    /\ completed = 0
    /\ late_writes = 0
    /\ estimate = <<>>
    /\ relay = "off"
    /\ archives = {}
    /\ copied = NothingCopied

\* Values the variables of the restore builder hold while no restore is
\* modelled.
XIdle ==
    /\ next_input = "none"
    /\ xmonitors = <<>>

\* Values the variables of the monitor specifications hold while no monitor
\* is modelled by them.
SideIdle ==
    /\ margs = <<>>
    /\ mline = <<>>
    /\ mproc = <<>>
    /\ file_processed = <<>>
    /\ pv_line = <<>>
    /\ progress = <<>>

InitPrune ==
    /\ paths = <<>>
    /\ pruned = <<>>
    /\ repruned = <<>>
    /\ phase = "input"
    /\ RunIdle
    /\ SideIdle
    /\ XIdle

\* The request names one more path (still empty).
NewPath ==
    /\ phase = "input"
    /\ Len(paths) < MaxPaths
    /\ paths' = Append(paths, <<>>)
    /\ UNCHANGED <<pruned, repruned, phase, runVars, sideVars, xVars>>

\* The last path of the request grows by one character.
AddChar(c) ==
    /\ phase = "input"
    /\ paths # <<>>
    /\ TotalChars(paths) < MaxChars
    /\ paths' = [paths EXCEPT ![Len(paths)] = Append(@, c)]
    /\ UNCHANGED <<pruned, repruned, phase, runVars, sideVars, xVars>>

Prune ==
    /\ phase = "input"
    /\ pruned' = prune_redundant_paths(paths)
    /\ phase' = "pruned"
    /\ UNCHANGED <<paths, repruned, runVars, sideVars, xVars>>

PruneAgain ==
    /\ phase = "pruned"
    /\ repruned' = prune_redundant_paths(pruned)
    /\ phase' = "repruned"
    /\ UNCHANGED <<paths, pruned, runVars, sideVars, xVars>>

NextPrune ==
    \/ NewPath
    \/ \E c \in Alphabet : AddChar(c)
    \/ Prune
    \/ PruneAgain

SpecPrune == InitPrune /\ [][NextPrune]_vars

-----------------------------------------------------------------------------
(***************************************************************************)
(* Properties of the path resolver.                                        *)
(***************************************************************************)

\* The directory a path names: its root and its normalised components.
Root(p) == IF StartsWith(abspath(p), <<Sep, Sep>>) THEN 2 ELSE 1

Comps(p) == NormComps(SplitSep(abspath(p), <<>>), <<>>)

\* d names a proper descendant of the directory p names.
IsDescendant(d, p) ==
    /\ Root(d) = Root(p)
    /\ Len(Comps(p)) < Len(Comps(d))
    /\ SubSeq(Comps(d), 1, Len(Comps(p))) = Comps(p)

\* C9 (as claimed): for every requested list holding a path P together with
\* a descendant of P, the pruned list contains P and not the descendant.
C9_KeepsAncestorDropsDescendant ==
    phase = "pruned" =>
        \A i, j \in 1..Len(paths) :
            IsDescendant(paths[j], paths[i]) =>
                /\ abspath(paths[i]) \in Range(pruned)
                /\ abspath(paths[j]) \notin Range(pruned)

\* C10: pruning is idempotent: pruning the pruned list returns it unchanged,
\* same elements in the same order.
C10_PruneIdempotent ==
    phase = "repruned" => repruned = pruned

\* C10 witness: a request whose pruning dropped a nested path and kept two
\* others was pruned a second time.
C10_Witness ==
    /\ phase = "repruned"
    /\ \E i, j \in 1..Len(paths) :
          /\ IsDescendant(paths[j], paths[i])
          /\ abspath(paths[j]) \notin Range(pruned)
    /\ Len(pruned) >= 2

\* C11 (as claimed): the pruned list is duplicate-free and holds no two
\* elements of which one names a proper ancestor directory of the other,
\* the filesystem root included.
C11_NoDuplicateNoAncestorPair ==
    phase = "pruned" =>
        /\ \A i, j \in 1..Len(pruned) : pruned[i] = pruned[j] => i = j
        /\ \A i, j \in 1..Len(pruned) : ~IsDescendant(pruned[j], pruned[i])

-----------------------------------------------------------------------------
(***************************************************************************)
(* Specification Spec: one backup request, from an entry point to its end. *)
(* The thread executing the request, the archiver's monitor thread and the *)
(* stage processes are interleaved step by step.                           *)
(***************************************************************************)

\* Bounds of the backup-run specification.
MaxChunks == 2
MaxLines == 1
MaxSubdirs == 1

\* Stage processes a run can spawn: archiver, progress meter, compressor
\* and encryptor.
Slots == {"tar", "pv", "zstd", "enc"}

\* Exit codes a stage may end with by itself.  run_backup_task tells 0, 1
\* and any other code apart for tar, and 0 from any other code for the
\* other stages.
ExitCodes(slot) == IF slot = "tar" THEN {0, 1, 2} ELSE {0, 1}

\* config.get('encryptionMethod'): the two recognised methods, and values
\* the builder does not recognise ("x"; "pv" and "tar" are also the names
\* of other stages).
Methods == {"age", "gpg", "x", "pv", "tar"}

Entries == {"local", "subdirs", "download"}

\* The run configurations of a request.  Fields no code path reads for a
\* configuration are held at one value.  Subdirectory mode hands each of
\* its runs the configuration single-archive mode hands its one run; it is
\* followed for unencrypted archives.
Configs ==
    {c \in [entry : Entries, sources : {"empty", "some"}, readable : BOOLEAN,
            encrypt : BOOLEAN, method : Methods, secret : BOOLEAN,
            policy : {"ignore", "abort"}, nsub : 0..MaxSubdirs] :
        /\ (c.entry # "subdirs" => c.nsub = 0)
        /\ (c.entry = "subdirs" => c.sources = "some" /\ ~c.encrypt)
        /\ (c.sources = "empty" => c.readable)
        /\ (~c.encrypt => c.method = "age" /\ ~c.secret)
        /\ (c.method \notin {"age", "gpg"} => ~c.secret)}

\* A line of a stage's diagnostic channel, by what monitor_process_stderr
\* tests on it:
\*   blank      line_str is empty after strip()
\*   starts_tar line_str.startswith("tar: ")
\*   item       the path tar_error_re captures ("" when it does not match)
\*   verb       the alternative of (?:open|read|stat) it matched ("" if none)
\*   ignorable  the line contains "broken pipe" or "write error"
\*   critical   the line contains "permission denied" or "cannot open"
DiagLine(text, blank, starts_tar, item, verb, ignorable, critical) ==
    [text |-> text, blank |-> blank, starts_tar |-> starts_tar,
     item |-> item, verb |-> verb, ignorable |-> ignorable,
     critical |-> critical]

CannotOpenDenied ==
    DiagLine("tar: a/secret: Cannot open: Permission denied",
             FALSE, TRUE, "a/secret", "open", FALSE, TRUE)

CannotStat ==
    DiagLine("tar: a/secret: Cannot stat: No such file or directory",
             FALSE, TRUE, "a/secret", "stat", FALSE, FALSE)

\* An unreadable item below a directory named "write error".
CannotOpenInWriteError ==
    DiagLine("tar: a/write error/f: Cannot open: Permission denied",
             FALSE, TRUE, "a/write error/f", "open", TRUE, TRUE)

\* The line of an item the archiver names by an absolute path.
CannotOpenAbsolute ==
    DiagLine("tar: /a/secret: Cannot open",
             FALSE, TRUE, "/a/secret", "open", FALSE, TRUE)

\* One item of tar's verbose listing.
ListedItem ==
    DiagLine("a/file", FALSE, FALSE, "", "", FALSE, FALSE)

StageDenied ==
    DiagLine("zstd: error 1 : Permission denied",
             FALSE, FALSE, "", "", FALSE, TRUE)

BrokenPipe ==
    DiagLine("tar: -: Cannot write: Broken pipe",
             FALSE, TRUE, "", "", TRUE, FALSE)

BlankLine ==
    DiagLine("", TRUE, FALSE, "", "", FALSE, FALSE)

\* stdbuf, the first element of tar_cmd, could not run the archiver.
StdbufFailed ==
    DiagLine("stdbuf: failed to run command: Permission denied",
             FALSE, FALSE, "", "", FALSE, TRUE)

DiagLines ==
    {CannotOpenDenied, CannotStat, CannotOpenInWriteError,
     CannotOpenAbsolute, ListedItem, StageDenied, BrokenPipe, BlankLine,
     StdbufFailed}

\* The diagnostic lines the archiver emits in specification Spec.  Both
\* start with "tar: ", so neither is taken for an item of a verbose listing.
TarLines == {CannotOpenDenied, CannotStat}

\* The arguments of a call of monitor_process_stderr: stream_name, whether
\* error_event, failed_files_list and base_path were passed, policy, and
\* whether some element of process.args contains 'v'.
MonitorCall(stream_name, shared, policy, v_in_args) ==
    [stream_name |-> stream_name, error_event |-> shared,
     policy |-> policy, failed_files_list |-> shared, base_path |-> shared,
     v_in_args |-> v_in_args]

\* common_base, the base_path handed to the archiver's monitor.
BasePath == "/d"

\* os.path.join(base_path, item): an absolute item replaces the base.
os_path_join(base_path, item) ==
    IF item = CannotOpenAbsolute.item THEN item
    ELSE base_path \o "/" \o item

\* One iteration of the loop of monitor_process_stderr over `line`, called
\* with the arguments a: the path it appends to failed_files_list ("" for
\* none), whether it sets error_event (and leaves the loop), the filename
\* of the file_processed event it emits ("" for none) and whether it emits
\* the line as a log_message.
monitor_process_stderr(a, line) ==
    LET is_verbose_tar == a.stream_name = "tar" /\ a.v_in_args
        nothing == [append |-> "", set |-> FALSE, filename |-> "",
                    logged |-> FALSE]
        appended == IF /\ a.stream_name = "tar"
                       /\ a.failed_files_list
                       /\ a.base_path
                       /\ line.item # ""
                    THEN os_path_join(BasePath, line.item) ELSE ""
    IN  IF line.blank THEN nothing
        ELSE IF is_verbose_tar /\ ~line.starts_tar
             THEN [nothing EXCEPT !.filename = line.text]
        ELSE IF line.ignorable
             THEN [nothing EXCEPT !.append = appended]
        ELSE [append |-> appended,
              set |-> a.error_event /\ a.policy = "abort" /\ line.critical,
              filename |-> "", logged |-> TRUE]

\* A stage process: st is what the OS knows of it, term whether it was sent
\* a termination request; returncode is the Popen attribute, set by the
\* first wait() that returns (reaped).
NoProc ==
    [st |-> "none", term |-> FALSE, reaped |-> FALSE, returncode |-> 0]

Running(slot) == procs[slot].st = "running"

\* proc.poll() is None
Alive(entry) == procs[entry.slot].st = "running"

Emit(by, status) ==
    Append(emitted, [by |-> by, run |-> subdir_i, status |-> status,
                     failed_files |-> failed_files])

PruneIdle ==
    /\ paths = <<>>
    /\ pruned = <<>>
    /\ repruned = <<>>
    /\ phase = "off"

Init ==
    /\ PruneIdle
    /\ SideIdle
    /\ XIdle
    /\ cfg \in Configs
    /\ pc = "start"
    /\ procs = [s \in Slots |-> NoProc]
    /\ built = <<>>
    /\ processes = <<>>
    /\ error_event = FALSE
    /\ failed_files = <<>>
    /\ monitor = "off"
    /\ nlines = 0
    /\ exit_codes = <<>>
    /\ idx = 0
    /\ pipeline_success = FALSE
    /\ file_exists = FALSE
    /\ dest = 0
    /\ emitted = <<>>
    /\ logs = {}
    /\ subdir_i = 0
    /\ completed = 0
    /\ late_writes = 0
    /\ estimate = <<>>
    /\ relay = "off"
    /\ archives = {}
    /\ copied = NothingCopied

---------------------------------------------------------------------------
\* generate_backup_filename

\* datetime.now().strftime('%d_%b').upper(); the runs of one request are
\* made on one day.
date_str == "03_NOV"

\* The sources of a configuration, by what generate_backup_filename tests
\* on them: "HOME" is HOME_DIR, "USR" is PREFIX_DIR, "custom" any other
\* path.  The selected sources of the configurations of Spec, and each
\* subdirectory of a parent directory, are such other paths.
SourcesOf(c) == IF c.sources = "empty" THEN {} ELSE {"custom"}

\* storage_type_str
storage_type_str(sources) ==
    LET termux == IF {"HOME", "USR"} \subseteq sources THEN "TERMUX(HOME/USR)"
                  ELSE IF "HOME" \in sources THEN "TERMUX(HOME)"
                  ELSE IF "USR" \in sources THEN "TERMUX(USR)"
                  ELSE ""
        custom == IF "custom" \in sources THEN "CUSTOM" ELSE ""
    IN  IF termux # "" /\ custom # "" THEN termux \o "+" \o custom
        ELSE IF termux # "" THEN termux
        ELSE IF custom # "" THEN custom
        ELSE "EMPTY"

\* A naming that marks every encrypted archive as one of age.
generate_backup_filename_age_for_all(sources, encrypt, method) ==
    <<date_str \o "_" \o storage_type_str(sources), "tar", "zst">>
    \o (IF encrypt THEN <<"age">> ELSE <<>>)

\* generate_backup_filename(config), as the sequence of the components of
\* the name between dots.
generate_backup_filename(sources, encrypt, method) ==
    <<date_str \o "_" \o storage_type_str(sources), "tar", "zst">>
    \o (IF encrypt /\ method = "age" THEN <<"age">>
        ELSE IF encrypt /\ method = "gpg" THEN <<"gpg">>
        ELSE <<>>)

\* The name of the archive a local run of the request writes: that of the
\* request's configuration, and in subdirectory mode that of subdir_config,
\* whose one source is the subdirectory.
output_path ==
    generate_backup_filename(SourcesOf(cfg), cfg.encrypt, cfg.method)

---------------------------------------------------------------------------
\* start_local_backup.task_wrapper

\* Single-archive mode: open(output_path, "wb") and call run_backup_task;
\* an exception of open is reported by the wrapper.
StartLocal ==
    /\ pc = "start"
    /\ cfg.entry = "local"
    /\ \E opened \in BOOLEAN :
         IF opened
         THEN /\ file_exists' = TRUE
              /\ archives' = archives \cup {output_path}
              /\ dest' = 0
              /\ pc' = "rbt_enter"
              /\ UNCHANGED emitted
         ELSE /\ emitted' = Emit("task_wrapper", "error")
              /\ pc' = "done"
              /\ UNCHANGED <<file_exists, archives, dest>>
    /\ UNCHANGED <<offVars, estimate, relay, cfg, copied, procs, built, processes, error_event,
                   failed_files, monitor, nlines, exit_codes, idx,
                   pipeline_success, logs, subdir_i, completed,
                   late_writes>>

\* Subdirectory mode: list the subdirectories of parentPath.
StartSubdirs ==
    /\ pc = "start"
    /\ cfg.entry = "subdirs"
    /\ IF cfg.nsub = 0
       THEN /\ emitted' = Emit("task_wrapper", "success")
            /\ pc' = "done"
            /\ UNCHANGED subdir_i
       ELSE /\ subdir_i' = 1
            /\ pc' = "sub_open"
            /\ UNCHANGED emitted
    /\ UNCHANGED <<offVars, estimate, relay, cfg, archives, copied, procs, built, processes, error_event,
                   failed_files, monitor, nlines, exit_codes, idx,
                   pipeline_success, file_exists, dest, logs, completed,
                   late_writes>>

\* Loop body of subdirectory mode: open the archive of the subdirectory and
\* call run_backup_task.
SubdirOpen ==
    /\ pc = "sub_open"
    /\ \E opened \in BOOLEAN :
         IF opened
         THEN /\ file_exists' = TRUE
              /\ archives' = archives \cup {output_path}
              /\ dest' = 0
              /\ pc' = "rbt_enter"
              /\ UNCHANGED emitted
         ELSE /\ emitted' = Emit("task_wrapper", "error")
              /\ pc' = "done"
              /\ UNCHANGED <<file_exists, archives, dest>>
    /\ UNCHANGED <<offVars, estimate, relay, cfg, copied, procs, built, processes, error_event,
                   failed_files, monitor, nlines, exit_codes, idx,
                   pipeline_success, logs, subdir_i, completed,
                   late_writes>>

\* run_backup_task has returned to the wrapper.
WrapperResume ==
    /\ pc = "rbt_returned"
    /\ IF cfg.entry = "subdirs"
       THEN /\ completed' = completed + 1
            /\ IF subdir_i < cfg.nsub
               THEN subdir_i' = subdir_i + 1 /\ pc' = "sub_open"
               ELSE pc' = "sub_done" /\ UNCHANGED subdir_i
       ELSE /\ pc' = "done"
            /\ UNCHANGED <<completed, subdir_i>>
    /\ UNCHANGED <<offVars, estimate, relay, cfg, archives, copied, procs, built, processes, error_event,
                   failed_files, monitor, nlines, exit_codes, idx,
                   pipeline_success, file_exists, dest, emitted, logs,
                   late_writes>>

\* End of subdirectory mode: the wrapper's own completion notification.
SubdirsDone ==
    /\ pc = "sub_done"
    /\ emitted' = Emit("task_wrapper", "success")
    /\ pc' = "done"
    /\ UNCHANGED <<offVars, estimate, relay, cfg, archives, copied, procs, built, processes, error_event,
                   failed_files, monitor, nlines, exit_codes, idx,
                   pipeline_success, file_exists, dest, logs, subdir_i,
                   completed, late_writes>>

---------------------------------------------------------------------------
\* run_backup_task: entry

rbt_Enter ==
    /\ pc = "rbt_enter"
    /\ pipeline_success' = FALSE
    /\ processes' = <<>>
    /\ failed_files' = <<>>
    \* a new run: the stage slots, the monitor and the event are those of
    \* the pipeline this run is about to build
    /\ procs' = [s \in Slots |-> NoProc]
    /\ built' = <<>>
    /\ error_event' = FALSE
    /\ monitor' = "off"
    /\ nlines' = 0
    /\ exit_codes' = <<>>
    /\ idx' = 0
    /\ late_writes' = 0
    /\ logs' = {}
    /\ relay' = "off"
    /\ copied' = NothingCopied
    /\ pc' = "bbp_validate"
    /\ UNCHANGED <<offVars, estimate, cfg, archives, file_exists, dest, emitted,
                   subdir_i, completed>>

---------------------------------------------------------------------------
\* build_backup_pipeline, called by run_backup_task (inside its try) and by
\* download_backup (inside try ... except (ValueError, PermissionError)).

\* Where a ValueError or PermissionError raised by the builder lands.
RaisedInBuilder ==
    IF cfg.entry = "download" THEN "dl_error_400" ELSE "rbt_except"

\* Source checks: empty selection, unreadable path.
bbp_Validate ==
    /\ pc = "bbp_validate"
    /\ IF cfg.sources = "empty" \/ ~cfg.readable
       THEN pc' = RaisedInBuilder
       ELSE pc' = "bbp_size"
    /\ UNCHANGED <<offVars, estimate, relay, cfg, archives, copied, procs, built, processes, error_event,
                   failed_files, monitor, nlines, exit_codes, idx,
                   pipeline_success, file_exists, dest, emitted, logs,
                   subdir_i, completed, late_writes>>

\* Sizes in bytes a cache entry or a du line may carry.
Sizes == {0, 7}

\* What the try block around the disk-usage query ends with:
\*   ok          check_output returned parsable lines
\*   empty       check_output returned ''
\*   timeout     subprocess.TimeoutExpired
\*   nonzero     subprocess.CalledProcessError
\*   unparsable  ValueError or IndexError of int(line.split()[0])
DuOutcomes == {"ok", "empty", "timeout", "nonzero", "unparsable"}

DuFailures == DuOutcomes \ {"ok"}

\* total_size after the try block with the sum a successful parse gives:
\* an assignment that did not complete leaves the initial 0.
\* This variant assigns the sum whatever the outcome.
du_total_size_unguarded(outcome, sum) == sum

du_total_size(outcome, sum) == IF outcome = "ok" THEN sum ELSE 0

\* Size estimation: total_size = 0; with every pruned source in cache_map
\* the cached sizes are summed, otherwise du is run inside try/except
\* Exception.  estimate records the step for as long as total_size is in
\* scope: whether the cache had every source, what the du subprocess ended
\* with ("not_run" when none was started) and total_size.
bbp_Size ==
    /\ pc = "bbp_size"
    /\ \E all_cached \in BOOLEAN, sum \in Sizes :
         IF all_cached
         THEN estimate' = [all_cached |-> TRUE, du |-> "not_run",
                           total_size |-> sum]
         ELSE \E outcome \in DuOutcomes :
                estimate' = [all_cached |-> FALSE, du |-> outcome,
                             total_size |-> du_total_size(outcome, sum)]
    /\ pc' = "bbp_spawn"
    /\ UNCHANGED <<offVars, relay, cfg, archives, copied, procs, built, processes,
                   error_event, failed_files, monitor, nlines, exit_codes,
                   idx, pipeline_success, file_exists, dest, emitted, logs,
                   subdir_i, completed, late_writes>>

\* `if total_size > 0: pv_cmd.extend(['-s', str(total_size)])`
pv_cmd_has_size == estimate.total_size > 0

Spawned ==
    [st |-> "running", term |-> FALSE, reaped |-> FALSE, returncode |-> 0]

\* The three Popen calls for tar, pv and zstd.
bbp_Spawn ==
    /\ pc = "bbp_spawn"
    /\ procs' = [procs EXCEPT !["tar"] = Spawned, !["pv"] = Spawned,
                              !["zstd"] = Spawned]
    /\ built' = <<[name |-> "tar", slot |-> "tar"],
                  [name |-> "pv", slot |-> "pv"],
                  [name |-> "zstd", slot |-> "zstd"]>>
    \* total_size is not read after pv_cmd is built
    /\ estimate' = <<>>
    /\ pc' = "bbp_encrypt"
    /\ UNCHANGED <<offVars, relay, cfg, archives, copied, processes, error_event, failed_files,
                   monitor, nlines, exit_codes, idx, pipeline_success,
                   file_exists, dest, emitted, logs, subdir_i, completed,
                   late_writes>>

\* The encryption branch: final_proc starts as zstd_proc; age and gpg check
\* their secret and spawn the encryptor; (method, final_proc) is appended
\* whatever the method is.
bbp_Encrypt ==
    /\ pc = "bbp_encrypt"
    /\ IF ~cfg.encrypt
       THEN /\ pc' = "bbp_monitors"
            /\ UNCHANGED <<procs, built, relay>>
       ELSE IF cfg.method \in {"age", "gpg"}
       THEN IF ~cfg.secret
            THEN /\ pc' = RaisedInBuilder
                 /\ UNCHANGED <<procs, built, relay>>
            ELSE /\ procs' = [procs EXCEPT !["enc"] = Spawned]
                 \* age reads from a pipe fed by the relay thread
                 /\ relay' = IF cfg.method = "age" THEN "copying"
                             ELSE "off"
                 /\ built' = Append(built,
                                    [name |-> cfg.method, slot |-> "enc"])
                 /\ pc' = "bbp_monitors"
       ELSE /\ built' = Append(built, [name |-> cfg.method, slot |-> "zstd"])
            /\ pc' = "bbp_monitors"
            /\ UNCHANGED <<procs, relay>>
    /\ UNCHANGED <<offVars, estimate, cfg, archives, copied, processes, error_event, failed_files,
                   monitor, nlines, exit_codes, idx, pipeline_success,
                   file_exists, dest, emitted, logs, subdir_i, completed,
                   late_writes>>

\* The event and the failed-items list are created, the monitors started,
\* and the builder returns: the caller binds `processes`.
bbp_StartMonitors ==
    /\ pc = "bbp_monitors"
    /\ error_event' = FALSE
    /\ failed_files' = <<>>
    /\ monitor' = "running"
    /\ processes' = built
    /\ pc' = IF cfg.entry = "download" THEN "dl_ready" ELSE "rbt_copy_check"
    /\ UNCHANGED <<offVars, estimate, relay, cfg, archives, copied, procs, built, nlines, exit_codes, idx,
                   pipeline_success, file_exists, dest, emitted, logs,
                   subdir_i, completed, late_writes>>

\* The stage whose stdout is the final stream.
FinalSlot == processes[Len(processes)].slot

---------------------------------------------------------------------------
\* run_backup_task: copy loop, exit-code reconciliation, cleanup

\* A copy loop that never looks at the abort signal (`while True`).
rbt_CopyCheck_ignoring_event ==
    /\ pc = "rbt_copy_check"
    /\ pc' = "rbt_read"
    /\ UNCHANGED <<offVars, estimate, relay, cfg, archives, copied, procs, built, processes, error_event,
                   failed_files, monitor, nlines, exit_codes, idx,
                   pipeline_success, file_exists, dest, emitted, logs,
                   subdir_i, completed, late_writes>>

\* `while not error_event.is_set()`
rbt_CopyCheck ==
    /\ pc = "rbt_copy_check"
    /\ pc' = IF error_event THEN "rbt_abort_check" ELSE "rbt_read"
    /\ UNCHANGED <<offVars, estimate, relay, cfg, archives, copied, procs, built, processes, error_event,
                   failed_files, monitor, nlines, exit_codes, idx,
                   pipeline_success, file_exists, dest, emitted, logs,
                   subdir_i, completed, late_writes>>

\* `chunk = pipe.read(8192); if not chunk: break`: a chunk while the stream
\* has one, end-of-stream once the final stage has exited.
rbt_Read ==
    /\ pc = "rbt_read"
    /\ \/ /\ dest < MaxChunks
          /\ copied' = [copied EXCEPT !.n = @ + 1]
          /\ pc' = "rbt_write"
       \/ /\ procs[FinalSlot].st = "exited"
          /\ copied' = [copied EXCEPT !.eof = TRUE]
          /\ pc' = "rbt_abort_check"
    /\ UNCHANGED <<offVars, estimate, relay, cfg, archives, procs, built, processes, error_event,
                   failed_files, monitor, nlines, exit_codes, idx,
                   pipeline_success, file_exists, dest, emitted, logs,
                   subdir_i, completed, late_writes>>

\* `destination_stream.write(chunk)`; the write may raise (e.g. disk full).
rbt_Write ==
    /\ pc = "rbt_write"
    /\ \/ /\ dest' = dest + 1
          /\ late_writes' = IF error_event THEN late_writes + 1
                            ELSE late_writes
          /\ pc' = "rbt_copy_check"
       \/ /\ pc' = "rbt_except"
          /\ UNCHANGED <<dest, late_writes>>
    /\ UNCHANGED <<offVars, estimate, relay, cfg, archives, copied, procs, built, processes, error_event,
                   failed_files, monitor, nlines, exit_codes, idx,
                   pipeline_success, file_exists, emitted, logs, subdir_i,
                   completed>>

\* `if error_event.is_set(): raise RuntimeError(...)`
rbt_AbortCheck ==
    /\ pc = "rbt_abort_check"
    /\ IF error_event
       THEN pc' = "rbt_except" /\ UNCHANGED idx
       ELSE pc' = "rbt_wait" /\ idx' = 1
    /\ UNCHANGED <<offVars, estimate, relay, cfg, archives, copied, procs, built, processes, error_event,
                   failed_files, monitor, nlines, exit_codes,
                   pipeline_success, file_exists, dest, emitted, logs,
                   subdir_i, completed, late_writes>>

\* The values proc.wait() may return once the process has exited: the
\* cached returncode, else -SIGTERM when the process was sent a termination
\* request while alive, else an exit code of its own.
WaitResults(slot) ==
    IF procs[slot].reaped THEN {procs[slot].returncode}
    ELSE IF procs[slot].term THEN {-15}
    ELSE ExitCodes(slot)

\* proc.wait() returning code: the Popen object caches it.
Reaped(slot, code) ==
    [procs EXCEPT ![slot].reaped = TRUE, ![slot].returncode = code]

\* dict assignment d[k] = v
DictSet(d, k, v) ==
    [n \in (DOMAIN d) \cup {k} |-> IF n = k THEN v ELSE d[n]]

\* One iteration of `{name: proc.wait() for name, proc in processes}`:
\* blocks until the process has exited; a later entry of the same name
\* replaces the earlier one.
rbt_Wait ==
    /\ pc = "rbt_wait"
    /\ LET e == processes[idx] IN
         /\ procs[e.slot].st = "exited"
         /\ \E code \in WaitResults(e.slot) :
              /\ procs' = Reaped(e.slot, code)
              /\ exit_codes' = DictSet(exit_codes, e.name, code)
    /\ IF idx < Len(processes)
       THEN idx' = idx + 1 /\ pc' = "rbt_wait"
       ELSE idx' = 0 /\ pc' = "rbt_decide"
    /\ UNCHANGED <<offVars, estimate, relay, cfg, archives, copied, built, processes, error_event,
                   failed_files, monitor, nlines, pipeline_success,
                   file_exists, dest, emitted, logs, subdir_i, completed,
                   late_writes>>

tar_code == exit_codes["tar"]

other_codes_ok ==
    \A n \in (DOMAIN exit_codes) \ {"tar"} : exit_codes[n] = 0

\* The success criterion of run_backup_task.
PipelineOk == tar_code \in {0, 1} /\ other_codes_ok

\* Success: flag, warning for tar code 1, terminal notification; otherwise
\* RuntimeError("Backup failed ...").
rbt_Decide ==
    /\ pc = "rbt_decide"
    /\ IF PipelineOk
       THEN /\ pipeline_success' = TRUE
            /\ logs' = logs \cup
                 (IF tar_code = 1 THEN {"tar finished with warnings."}
                  ELSE {})
            /\ emitted' = Emit("run_backup_task", "success")
            /\ pc' = "rbt_finally"
       ELSE /\ pc' = "rbt_except"
            /\ UNCHANGED <<pipeline_success, logs, emitted>>
    /\ UNCHANGED <<offVars, estimate, relay, cfg, archives, copied, procs, built, processes, error_event,
                   failed_files, monitor, nlines, exit_codes, idx,
                   file_exists, dest, subdir_i, completed, late_writes>>

\* `except Exception as e`: log and emit the terminal error notification.
rbt_Except ==
    /\ pc = "rbt_except"
    /\ emitted' = Emit("run_backup_task", "error")
    /\ pc' = "rbt_finally"
    /\ UNCHANGED <<offVars, estimate, relay, cfg, archives, copied, procs, built, processes, error_event,
                   failed_files, monitor, nlines, exit_codes, idx,
                   pipeline_success, file_exists, dest, logs, subdir_i,
                   completed, late_writes>>

\* A cleanup that removes the output file whatever the outcome was.
removes_any_output_file == file_exists

\* `not pipeline_success and output_path != "browser_stream" and
\* os.path.exists(output_path)`; run_backup_task is only ever handed files.
removes_output_file == ~pipeline_success /\ file_exists

\* `finally`: remove the incomplete output file, then enter the loop over
\* `processes`.
rbt_FinallyRemove ==
    /\ pc = "rbt_finally"
    /\ IF removes_output_file
       THEN /\ file_exists' = FALSE
            /\ archives' = archives \ {output_path}
            /\ logs' = logs \cup {"Removed incomplete file."}
       ELSE UNCHANGED <<file_exists, archives, logs>>
    /\ IF processes = <<>>
       THEN pc' = "rbt_returned" /\ idx' = 0
       ELSE pc' = "rbt_terminate" /\ idx' = 1
    /\ UNCHANGED <<offVars, estimate, relay, cfg, copied, procs, built, processes, error_event,
                   failed_files, monitor, nlines, exit_codes,
                   pipeline_success, dest, emitted, subdir_i, completed,
                   late_writes>>

\* `if proc.poll() is None: proc.terminate()`
Terminate(e) ==
    IF Alive(e) THEN [procs EXCEPT ![e.slot].term = TRUE] ELSE procs

rbt_FinallyTerminate ==
    /\ pc = "rbt_terminate"
    /\ procs' = Terminate(processes[idx])
    /\ pc' = "rbt_reap"
    /\ UNCHANGED <<offVars, estimate, relay, cfg, archives, copied, built, processes, error_event,
                   failed_files, monitor, nlines, exit_codes, idx,
                   pipeline_success, file_exists, dest, emitted, logs,
                   subdir_i, completed, late_writes>>

\* `proc.wait()` of the cleanup loop: blocks until the process has exited.
rbt_FinallyWait ==
    /\ pc = "rbt_reap"
    /\ LET slot == processes[idx].slot IN
         /\ procs[slot].st = "exited"
         /\ \E code \in WaitResults(slot) : procs' = Reaped(slot, code)
    /\ IF idx < Len(processes)
       THEN idx' = idx + 1 /\ pc' = "rbt_terminate"
       ELSE idx' = 0 /\ pc' = "rbt_returned"
    /\ UNCHANGED <<offVars, estimate, relay, cfg, archives, copied, built, processes, error_event,
                   failed_files, monitor, nlines, exit_codes,
                   pipeline_success, file_exists, dest, emitted, logs,
                   subdir_i, completed, late_writes>>

---------------------------------------------------------------------------
\* The stage processes and the archiver's monitor thread

\* The stage processes and the monitor are followed from the moment the
\* builder is entered until the code that started the run gets control
\* back; nothing later in the request reads their state.
RunActive ==
    pc \notin {"start", "sub_open", "rbt_enter", "rbt_returned", "sub_done",
               "done"}

\* A builder that hands every monitor the run's event, policy and list.
MonitorArgs_all_shared(stream, v_in_args) ==
    MonitorCall(stream, TRUE, cfg.policy, v_in_args)

\* The arguments the builder gives the monitor of a stage (the threads
\* started at the end of build_backup_pipeline): the archiver's monitor
\* shares the run's event, policy and failed-items list, the others get
\* the defaults.
MonitorArgs(stream, v_in_args) ==
    IF stream = "tar" THEN MonitorCall("tar", TRUE, cfg.policy, v_in_args)
    ELSE MonitorCall(stream, FALSE, "ignore", v_in_args)

\* The relay thread of the age branch,
\*   lambda s, d: (shutil.copyfileobj(s, d), s.close(), d.close())
\* with s = zstd_proc.stdout and d = final_proc.stdin.  relay is
\*   "copying"         copyfileobj is running
\*   "closed"          copyfileobj returned and both close() calls ran
\*   "failed"          copyfileobj raised: the tuple was never completed, no
\*                     close() ran and the thread is dead; zstd had exited
\*   "failed_stalled"  the same, with zstd still writing to the pipe that
\*                     nobody reads any more
\* (A zstd whose remaining output fits in the pipe exits as if it had
\* exited just before the relay failed.)

\* copyfileobj reads end-of-file from zstd, then both ends are closed.
RelayDone ==
    /\ RunActive
    /\ relay = "copying"
    /\ procs["zstd"].st = "exited"
    /\ relay' = "closed"
    /\ UNCHANGED <<offVars, estimate, cfg, archives, copied, pc, procs, built, processes,
                   error_event, failed_files, monitor, nlines, exit_codes,
                   idx, pipeline_success, file_exists, dest, emitted, logs,
                   subdir_i, completed, late_writes>>

\* The encryptor has exited: d.write raises BrokenPipeError in copyfileobj.
RelayFail ==
    /\ RunActive
    /\ relay = "copying"
    /\ procs["enc"].st = "exited"
    /\ relay' = IF Running("zstd") THEN "failed_stalled" ELSE "failed"
    /\ UNCHANGED <<offVars, estimate, cfg, archives, copied, pc, procs, built, processes,
                   error_event, failed_files, monitor, nlines, exit_codes,
                   idx, pipeline_success, file_exists, dest, emitted, logs,
                   subdir_i, completed, late_writes>>

\* A stage blocked in write(): zstd on the pipe the dead relay no longer
\* reads, pv and tar behind it.  A termination request ends the process
\* all the same, and a stage whose reader has exited gets EPIPE.
Stalled(slot) ==
    /\ relay = "failed_stalled"
    /\ ~procs[slot].term
    /\ \/ slot = "zstd"
       \/ slot = "pv" /\ Running("zstd")
       \/ slot = "tar" /\ Running("pv") /\ Running("zstd")

\* A running stage exits, by itself or killed by the termination request
\* it was sent.  Its exit status is read by the first wait() on it.
ProcExit(slot) ==
    /\ RunActive
    /\ Running(slot)
    /\ ~Stalled(slot)
    /\ procs' = [procs EXCEPT ![slot].st = "exited"]
    /\ UNCHANGED <<offVars, estimate, relay, cfg, archives, copied, pc, built, processes, error_event,
                   failed_files, monitor, nlines, exit_codes, idx,
                   pipeline_success, file_exists, dest, emitted, logs,
                   subdir_i, completed, late_writes>>

\* monitor_process_stderr(tar_proc, 'tar', error_event, error_policy,
\* failed_files, common_base), one line of tar's stderr: a line matching
\* tar_error_re records its item; an ignorable line is skipped; a critical
\* line under policy 'abort' sets the event and ends the monitor.
MonitorLine(line) ==
    /\ RunActive
    /\ monitor = "running"
    /\ nlines < MaxLines
    /\ nlines' = nlines + 1
    /\ \E v \in BOOLEAN :
         LET did == monitor_process_stderr(MonitorArgs("tar", v), line) IN
           /\ failed_files' = IF did.append # ""
                               THEN Append(failed_files, did.append)
                               ELSE failed_files
           /\ IF did.set
              THEN error_event' = TRUE /\ monitor' = "done"
              ELSE UNCHANGED <<error_event, monitor>>
    /\ UNCHANGED <<offVars, estimate, relay, cfg, archives, copied, pc, procs, built, processes, exit_codes,
                   idx, pipeline_success, file_exists, dest, emitted, logs,
                   subdir_i, completed, late_writes>>

\* The diagnostic lines the other stages emit in specification Spec.
StageLines == {StageDenied, CannotOpenDenied}

\* The monitors of the other stages: monitor_process_stderr(zstd_proc,
\* 'zstd') and, when an encryptor was spawned, monitor_process_stderr(
\* final_proc, final_proc.args[0]), one line of the stage's stderr.
StageMonitors ==
    {"zstd"} \cup (IF procs["enc"].st # "none" THEN {"bin/" \o cfg.method}
                   ELSE {})

StageMonitorLine(stream, line) ==
    /\ RunActive
    /\ monitor # "off"
    /\ stream \in StageMonitors
    \* no argument of the zstd, age and gpg commands contains 'v'
    /\ LET did == monitor_process_stderr(MonitorArgs(stream, FALSE), line) IN
         /\ failed_files' = IF did.append # ""
                             THEN Append(failed_files, did.append)
                             ELSE failed_files
         /\ error_event' = (error_event \/ did.set)
    /\ UNCHANGED <<offVars, estimate, relay, cfg, archives, copied, pc, procs, built, processes, monitor,
                   nlines, exit_codes, idx, pipeline_success, file_exists,
                   dest, emitted, logs, subdir_i, completed, late_writes>>

\* readline returns b'': tar has exited and its stderr is drained.
MonitorEof ==
    /\ RunActive
    /\ monitor = "running"
    /\ procs["tar"].st = "exited"
    /\ monitor' = "done"
    /\ UNCHANGED <<offVars, estimate, relay, cfg, archives, copied, pc, procs, built, processes, error_event,
                   failed_files, nlines, exit_codes, idx, pipeline_success,
                   file_exists, dest, emitted, logs, subdir_i, completed,
                   late_writes>>

---------------------------------------------------------------------------
\* download_backup (single-stream mode) and its generator generate_stream

StartDownload ==
    /\ pc = "start"
    /\ cfg.entry = "download"
    /\ pc' = "bbp_validate"
    /\ UNCHANGED <<offVars, estimate, relay, cfg, archives, copied, procs, built, processes, error_event,
                   failed_files, monitor, nlines, exit_codes, idx,
                   pipeline_success, file_exists, dest, emitted, logs,
                   subdir_i, completed, late_writes>>

\* `except (ValueError, PermissionError) as e: return f"Error: {e}", 400`
dl_Error400 ==
    /\ pc = "dl_error_400"
    /\ pc' = "done"
    /\ UNCHANGED <<offVars, estimate, relay, cfg, archives, copied, procs, built, processes, error_event,
                   failed_files, monitor, nlines, exit_codes, idx,
                   pipeline_success, file_exists, dest, emitted, logs,
                   subdir_i, completed, late_writes>>

\* The Response holds the generator; the server asks it for its first
\* chunk, or the client is gone before it does and the generator is closed
\* without having started (its body, `finally` included, never runs).
dl_FirstNext ==
    /\ pc = "dl_ready"
    /\ \/ pc' = "gs_check"
       \/ pc' = "done"
    /\ UNCHANGED <<offVars, estimate, relay, cfg, archives, copied, procs, built, processes, error_event,
                   failed_files, monitor, nlines, exit_codes, idx,
                   pipeline_success, file_exists, dest, emitted, logs,
                   subdir_i, completed, late_writes>>

\* `while not error_event.is_set()`
gs_Check ==
    /\ pc = "gs_check"
    /\ pc' = IF error_event THEN "gs_finally" ELSE "gs_read"
    /\ UNCHANGED <<offVars, estimate, relay, cfg, archives, copied, procs, built, processes, error_event,
                   failed_files, monitor, nlines, exit_codes, idx,
                   pipeline_success, file_exists, dest, emitted, logs,
                   subdir_i, completed, late_writes>>

\* `chunk = pipe.read(8192); if not chunk: break`
gs_Read ==
    /\ pc = "gs_read"
    /\ \/ /\ dest < MaxChunks
          /\ copied' = [copied EXCEPT !.n = @ + 1]
          /\ pc' = "gs_yield"
       \/ /\ procs[FinalSlot].st = "exited"
          /\ copied' = [copied EXCEPT !.eof = TRUE]
          /\ pc' = "gs_finally"
    /\ UNCHANGED <<offVars, estimate, relay, cfg, archives, procs, built, processes, error_event,
                   failed_files, monitor, nlines, exit_codes, idx,
                   pipeline_success, file_exists, dest, emitted, logs,
                   subdir_i, completed, late_writes>>

\* `yield chunk`: the chunk goes to the client and the generator is resumed,
\* or the client has disconnected and the generator is closed at the yield.
gs_Yield ==
    /\ pc = "gs_yield"
    /\ \/ /\ dest' = dest + 1
          /\ late_writes' = IF error_event THEN late_writes + 1
                            ELSE late_writes
          /\ pc' = "gs_check"
       \/ /\ pc' = "gs_finally"
          /\ UNCHANGED <<dest, late_writes>>
    /\ UNCHANGED <<offVars, estimate, relay, cfg, archives, copied, procs, built, processes, error_event,
                   failed_files, monitor, nlines, exit_codes, idx,
                   pipeline_success, file_exists, emitted, logs, subdir_i,
                   completed>>

\* `finally: log_event("Client disconnected. Cleaning up pipeline...")`
gs_Finally ==
    /\ pc = "gs_finally"
    /\ idx' = 1
    /\ pc' = "gs_terminate"
    /\ UNCHANGED <<offVars, estimate, relay, cfg, archives, copied, procs, built, processes, error_event,
                   failed_files, monitor, nlines, exit_codes,
                   pipeline_success, file_exists, dest, emitted, logs,
                   subdir_i, completed, late_writes>>

gs_Terminate ==
    /\ pc = "gs_terminate"
    /\ procs' = Terminate(processes[idx])
    /\ pc' = "gs_reap"
    /\ UNCHANGED <<offVars, estimate, relay, cfg, archives, copied, built, processes, error_event,
                   failed_files, monitor, nlines, exit_codes, idx,
                   pipeline_success, file_exists, dest, emitted, logs,
                   subdir_i, completed, late_writes>>

gs_Wait ==
    /\ pc = "gs_reap"
    /\ LET slot == processes[idx].slot IN
         /\ procs[slot].st = "exited"
         /\ \E code \in WaitResults(slot) : procs' = Reaped(slot, code)
    /\ IF idx < Len(processes)
       THEN idx' = idx + 1 /\ pc' = "gs_terminate"
       ELSE idx' = 0 /\ pc' = "done"
    /\ UNCHANGED <<offVars, estimate, relay, cfg, archives, copied, built, processes, error_event,
                   failed_files, monitor, nlines, exit_codes,
                   pipeline_success, file_exists, dest, emitted, logs,
                   subdir_i, completed, late_writes>>

---------------------------------------------------------------------------
Next ==
    \/ StartLocal
    \/ StartSubdirs
    \/ SubdirOpen
    \/ WrapperResume
    \/ SubdirsDone
    \/ rbt_Enter
    \/ bbp_Validate
    \/ bbp_Size
    \/ bbp_Spawn
    \/ bbp_Encrypt
    \/ bbp_StartMonitors
    \/ rbt_CopyCheck
    \/ rbt_Read
    \/ rbt_Write
    \/ rbt_AbortCheck
    \/ rbt_Wait
    \/ rbt_Decide
    \/ rbt_Except
    \/ rbt_FinallyRemove
    \/ rbt_FinallyTerminate
    \/ rbt_FinallyWait
    \/ StartDownload
    \/ dl_Error400
    \/ dl_FirstNext
    \/ gs_Check
    \/ gs_Read
    \/ gs_Yield
    \/ gs_Finally
    \/ gs_Terminate
    \/ gs_Wait
    \/ \E slot \in Slots : ProcExit(slot)
    \/ \E line \in TarLines : MonitorLine(line)
    \/ \E stream \in {"zstd", "bin/age", "bin/gpg"}, line \in StageLines :
          StageMonitorLine(stream, line)
    \/ MonitorEof
    \/ RelayDone
    \/ RelayFail

Spec == Init /\ [][Next]_vars

-----------------------------------------------------------------------------
(***************************************************************************)
(* Specification SpecMonitor: one thread running monitor_process_stderr,   *)
(* called as one of the builders calls it, reads the lines of its stage's  *)
(* diagnostic channel until end-of-stream or until it leaves the loop.     *)
(***************************************************************************)

\* Bound of the monitor specification: lines one monitor reads.
MaxMonLines == 2

\* An element of a command (process.args), by what the monitor tests on
\* it: has_v is 'v' in arg.
Arg(text, has_v) == [text |-> text, has_v |-> has_v]

STDBUF_BIN == Arg("/data/data/com.termux/files/usr/bin/stdbuf", FALSE)
TAR_BIN == Arg("/data/data/com.termux/files/usr/bin/tar", FALSE)
ZSTD_BIN == Arg("/data/data/com.termux/files/usr/bin/zstd", FALSE)
AGE_BIN == Arg("/data/data/com.termux/files/usr/bin/age", FALSE)
GPG_BIN == Arg("/data/data/com.termux/files/usr/bin/gpg", FALSE)
CAT_BIN == Arg("/data/data/com.termux/files/usr/bin/cat", FALSE)

\* relative_sources of a run: the sources relative to common_base.
RelativeSources ==
    {<<Arg("a", FALSE)>>, <<Arg("Movies", TRUE)>>,
     <<Arg("a", FALSE), Arg("Movies", TRUE)>>}

\* tar_cmd of build_backup_pipeline.
tar_cmd(show_progress, error_policy, relative_sources) ==
    <<STDBUF_BIN, Arg("-oL", FALSE), TAR_BIN,
      IF show_progress THEN Arg("-chvf", TRUE) ELSE Arg("-chf", FALSE),
      Arg("-", FALSE)>>
    \o (IF error_policy = "ignore"
        THEN <<Arg("--ignore-failed-read", FALSE)>> ELSE <<>>)
    \o <<Arg("-C", FALSE), Arg(BasePath, FALSE)>>
    \o relative_sources

\* tar_cmd of build_extraction_pipeline.
extract_tar_cmd(show_progress) ==
    <<TAR_BIN, IF show_progress THEN Arg("-xvf", TRUE) ELSE Arg("-xf", FALSE),
      Arg("-", FALSE)>>

\* any('v' in arg for arg in process.args)
any_v_in_args(args) == \E i \in 1..Len(args) : args[i].has_v

\* A process handed to monitor_process_stderr: the builder that spawned
\* it, the stream_name it passes, whether it passes the run's event, list
\* and base, the policy, showFileProgress and the process' command.
Monitored(builder, stream_name, shared, policy, show_progress, args) ==
    [builder |-> builder, stream_name |-> stream_name, shared |-> shared,
     policy |-> policy, show_progress |-> show_progress, args |-> args]

\* The processes the builders start a monitor_process_stderr thread for:
\* build_backup_pipeline for tar (with the run's event, policy, list and
\* base), zstd and the encryptor, and build_extraction_pipeline for each
\* stage of a restore.
MonitoredProcs ==
    {Monitored("backup", "tar", TRUE, p, sp, tar_cmd(sp, p, src)) :
        p \in {"ignore", "abort"}, sp \in BOOLEAN, src \in RelativeSources}
    \cup {Monitored("backup", "zstd", FALSE, "ignore", sp,
                    <<ZSTD_BIN, Arg("-T0", FALSE)>>) : sp \in BOOLEAN}
    \cup {Monitored("backup", "bin/age", FALSE, "ignore", sp,
                    <<AGE_BIN, Arg("-p", FALSE), Arg("-o", FALSE),
                      Arg("-", FALSE)>>) : sp \in BOOLEAN}
    \cup {Monitored("backup", "bin/gpg", FALSE, "ignore", sp,
                    <<GPG_BIN, Arg("--encrypt", FALSE),
                      Arg("--recipient", FALSE), r, Arg("--output", FALSE),
                      Arg("-", FALSE)>>) :
            sp \in BOOLEAN, r \in {Arg("bob", FALSE), Arg("eve", TRUE)}}
    \cup {Monitored("restore", "cat", FALSE, "ignore", sp, <<CAT_BIN, f>>) :
            sp \in BOOLEAN,
            f \in {Arg("backups/a.tar.zst", FALSE),
                   Arg("backups/archive.tar.zst", TRUE)}}
    \cup {Monitored("restore", n, FALSE, "ignore", sp,
                    <<IF n = "age" THEN AGE_BIN ELSE GPG_BIN,
                      Arg("--decrypt", FALSE)>>) :
            sp \in BOOLEAN, n \in {"age", "gpg"}}
    \cup {Monitored("restore", "zstd", FALSE, "ignore", sp,
                    <<Arg(ZSTD_BIN.text \o "cat", FALSE)>>) : sp \in BOOLEAN}
    \cup {Monitored("restore", "tar", FALSE, "ignore", sp,
                    extract_tar_cmd(sp)) : sp \in BOOLEAN}

\* The call of monitor_process_stderr for a monitored process.
CallOf(m) ==
    MonitorCall(m.stream_name, m.shared, m.policy, any_v_in_args(m.args))

MonitorCalls == {CallOf(m) : m \in MonitoredProcs}

InitMonitor ==
    /\ PruneIdle
    /\ XIdle
    /\ pv_line = <<>>
    /\ progress = <<>>
    /\ cfg = [entry |-> "none"]
    /\ pc = "off"
    /\ procs = <<>>
    /\ built = <<>>
    /\ processes = <<>>
    /\ exit_codes = <<>>
    /\ idx = 0
    /\ pipeline_success = FALSE
    /\ file_exists = FALSE
    /\ dest = 0
    /\ emitted = <<>>
    /\ logs = {}
    /\ subdir_i = 0
    /\ completed = 0
    /\ late_writes = 0
    /\ mproc \in MonitoredProcs
    /\ margs = CallOf(mproc)
    /\ mline = <<>>
    /\ file_processed = <<>>
    /\ monitor = "running"
    /\ nlines = 0
    /\ error_event = FALSE
    /\ failed_files = <<>>
    /\ estimate = <<>>
    /\ relay = "off"
    /\ archives = {}
    /\ copied = NothingCopied

\* One iteration of `for line in iter(pipe.readline, b'')`.
mps_Line(line) ==
    /\ monitor = "running"
    /\ nlines < MaxMonLines
    /\ nlines' = nlines + 1
    /\ mline' = line
    /\ LET did == monitor_process_stderr(margs, line) IN
         /\ failed_files' = IF did.append # ""
                             THEN Append(failed_files, did.append)
                             ELSE failed_files
         /\ file_processed' = IF did.filename # ""
                               THEN Append(file_processed, did.filename)
                               ELSE file_processed
         /\ IF did.set
            THEN error_event' = TRUE /\ monitor' = "done"
            ELSE UNCHANGED <<error_event, monitor>>
    /\ UNCHANGED <<pruneVars, xVars, pvVars, estimate, relay, margs, mproc, cfg, archives, copied, pc, procs, built, processes,
                   exit_codes, idx, pipeline_success, file_exists, dest,
                   emitted, logs, subdir_i, completed, late_writes>>

\* readline returns b'': the loop and the thread end.
mps_Eof ==
    /\ monitor = "running"
    /\ monitor' = "done"
    /\ UNCHANGED <<pruneVars, xVars, pvVars, estimate, relay, monVars, cfg, archives, copied, pc, procs, built,
                   processes, error_event, failed_files, nlines, exit_codes,
                   idx, pipeline_success, file_exists, dest, emitted, logs,
                   subdir_i, completed, late_writes>>

NextMonitor ==
    \/ \E line \in DiagLines : mps_Line(line)
    \/ mps_Eof

SpecMonitor == InitMonitor /\ [][NextMonitor]_vars

\* The monitor of a backup run's archiver: the call that shares the run's
\* abort signal and failed-items list.
ArchiverMonitor == margs.stream_name = "tar" /\ margs.error_event

\* C12 (as claimed): after the archiver's monitor has read a line of the
\* form 'tar: <path>: Cannot open', under policy 'ignore' the path is the
\* last entry of the failed-items list and the abort signal is not set, and
\* under policy 'abort' the abort signal is set, in verbose mode or not and
\* whatever else the line contains.
C12_CannotOpenHandled ==
    (ArchiverMonitor /\ nlines > 0 /\ mline.verb = "open") =>
        /\ margs.policy = "ignore" =>
              /\ failed_files # <<>>
              /\ Last(failed_files) = os_path_join(BasePath, mline.item)
              /\ ~error_event
        /\ margs.policy = "abort" => error_event

\* C21 (as claimed): a monitor of an archiver that was not started in
\* verbose per-item mode (showFileProgress is not 'true') emits no
\* file_processed event, whatever the sources of the run are.
C21_ItemEventsOnlyWhenVerbose ==
    (margs.stream_name = "tar" /\ ~mproc.show_progress) =>
        file_processed = <<>>

-----------------------------------------------------------------------------
(***************************************************************************)
(* Specification SpecExtract: one restore run, run_extraction_task with    *)
(* build_extraction_pipeline, and the stage processes of its pipeline.     *)
(***************************************************************************)

\* Stage processes of a restore pipeline: reader, decryptor, decompressor
\* and extractor.
XSlots == {"cat", "dec", "zstd", "tar"}

\* A file name is the sequence of its components between dots:
\* "a.tar.zst.age" is <<"a", "tar", "zst", "age">>.
\* filename.endswith("." + ext)
endswith(filename, ext) == Len(filename) > 1 /\ Last(filename) = ext

\* The archives a restore is asked for: compressed only, encrypted by age
\* or gpg, a name without any suffix, and a name with an encryption suffix
\* that is not its last.
RestoreNames ==
    {<<"a", "tar", "zst">>, <<"a", "tar", "zst", "age">>,
     <<"a", "tar", "zst", "gpg">>, <<"a">>, <<"a", "age", "bak">>}

\* The decryptor build_extraction_pipeline spawns for a file name: the
\* test of `if filename.endswith(".age") ... elif filename.endswith(".gpg")`.
decryptor_by_any_suffix(filename) ==
    IF \E i \in 2..Len(filename) : filename[i] = "age" THEN "age"
    ELSE IF \E i \in 2..Len(filename) : filename[i] = "gpg" THEN "gpg"
    ELSE "none"

decryptor_for(filename) ==
    IF endswith(filename, "age") THEN "age"
    ELSE IF endswith(filename, "gpg") THEN "gpg"
    ELSE "none"

\* The restore requests: the archive named by config['filename'] exists or
\* not, and was uploaded or not.
XConfigs ==
    [entry : {"extract"}, is_uploaded_file : BOOLEAN, exists : BOOLEAN,
     filename : RestoreNames]

InitExtract ==
    /\ PruneIdle
    /\ SideIdle
    /\ XIdle
    /\ cfg \in XConfigs
    /\ pc = "ret_enter"
    /\ procs = [s \in XSlots |-> NoProc]
    /\ built = <<>>
    /\ processes = <<>>
    /\ error_event = FALSE
    /\ failed_files = <<>>
    /\ monitor = "off"
    /\ nlines = 0
    /\ exit_codes = <<>>
    /\ idx = 0
    /\ pipeline_success = FALSE
    \* the uploaded archive was saved to TEMP_UPLOAD_PATH before the run
    /\ file_exists = (cfg.is_uploaded_file /\ cfg.exists)
    /\ dest = 0
    /\ emitted = <<>>
    /\ logs = {}
    /\ subdir_i = 0
    /\ completed = 0
    /\ late_writes = 0
    /\ estimate = <<>>
    /\ relay = "off"
    /\ archives = (IF cfg.exists /\ ~cfg.is_uploaded_file
                  THEN {cfg.filename} ELSE {})
    /\ copied = NothingCopied

\* `if not os.path.exists(source_path): raise FileNotFoundError`
bep_Exists ==
    /\ pc = "ret_enter"
    /\ pc' = IF cfg.exists THEN "bep_cat" ELSE "ret_except"
    /\ UNCHANGED <<offVars, estimate, relay, cfg, archives, copied, procs, built, processes, error_event,
                   failed_files, monitor, nlines, exit_codes, idx,
                   pipeline_success, file_exists, dest, emitted, logs,
                   subdir_i, completed, late_writes>>

\* subprocess.Popen for a stage of the restore pipeline reading from
\* `stdin`, followed by processes.append((name, proc)) and by the
\* assignment, if any, to next_input; Popen raises OSError when the
\* program cannot be started.
bep_Popen(at, name, slot, stdin, then, next) ==
    /\ pc = at
    /\ \/ /\ procs' = [procs EXCEPT ![slot] = Spawned]
          /\ built' = Append(built, [name |-> name, slot |-> slot,
                                     stdin |-> stdin])
          /\ next_input' = next
          /\ pc' = then
       \/ /\ pc' = "ret_except"
          /\ UNCHANGED <<procs, built, next_input>>
    /\ UNCHANGED <<pruneVars, sideVars, xmonitors, estimate, relay, cfg, archives, copied, processes, error_event, failed_files,
                   monitor, nlines, exit_codes, idx, pipeline_success,
                   file_exists, dest, emitted, logs, subdir_i, completed,
                   late_writes>>

\* cat reads the archive named on its command line;
\* next_input = cat_proc.stdout
bep_Cat ==
    /\ bep_Popen("bep_cat", "cat", "cat", "source_path",
                 IF decryptor_for(cfg.filename) = "none" THEN "bep_zstd"
                 ELSE "bep_decrypt",
                 "cat")

\* `if filename.endswith(".age"): ... elif filename.endswith(".gpg"): ...`
\* with stdin=next_input, then next_input = age_proc.stdout (gpg_proc.stdout)
bep_Decrypt ==
    /\ bep_Popen("bep_decrypt", decryptor_for(cfg.filename), "dec",
                 next_input, "bep_zstd", "dec")

\* zstdcat with stdin=next_input
bep_Zstd ==
    /\ bep_Popen("bep_zstd", "zstd", "zstd", next_input, "bep_tar",
                 next_input)

\* tar with stdin=zstd_proc.stdout
bep_Tar ==
    /\ bep_Popen("bep_tar", "tar", "tar", "zstd", "bep_monitors",
                 next_input)

\* `for name, proc in processes:` one monitor thread is started for each
\* stage, and the builder returns its list.
bep_Return ==
    /\ pc = "bep_monitors"
    /\ xmonitors' = [i \in 1..Len(built) |-> built[i].name]
    /\ processes' = built
    /\ pc' = "ret_wait_final"
    /\ UNCHANGED <<pruneVars, sideVars, next_input, estimate, relay, cfg, archives, copied, procs, built, error_event, failed_files,
                   monitor, nlines, exit_codes, idx, pipeline_success,
                   file_exists, dest, emitted, logs, subdir_i, completed,
                   late_writes>>

\* `_, final_proc = processes[-1]; final_proc.wait()`
ret_WaitFinal ==
    /\ pc = "ret_wait_final"
    /\ LET slot == processes[Len(processes)].slot IN
         /\ procs[slot].st = "exited"
         /\ \E code \in WaitResults(slot) : procs' = Reaped(slot, code)
    /\ idx' = 1
    /\ pc' = "ret_wait"
    /\ UNCHANGED <<offVars, estimate, relay, cfg, archives, copied, built, processes, error_event,
                   failed_files, monitor, nlines, exit_codes,
                   pipeline_success, file_exists, dest, emitted, logs,
                   subdir_i, completed, late_writes>>

\* One iteration of `{name: proc.wait() for name, proc in processes}`.
ret_Wait ==
    /\ pc = "ret_wait"
    /\ LET e == processes[idx] IN
         /\ procs[e.slot].st = "exited"
         /\ \E code \in WaitResults(e.slot) :
              /\ procs' = Reaped(e.slot, code)
              /\ exit_codes' = DictSet(exit_codes, e.name, code)
    /\ IF idx < Len(processes)
       THEN idx' = idx + 1 /\ pc' = "ret_wait"
       ELSE idx' = 0 /\ pc' = "ret_decide"
    /\ UNCHANGED <<offVars, estimate, relay, cfg, archives, copied, built, processes, error_event,
                   failed_files, monitor, nlines, pipeline_success,
                   file_exists, dest, emitted, logs, subdir_i, completed,
                   late_writes>>

\* A criterion with the leniency of backup runs: tar may exit with 0 or 1.
all_codes_zero_or_tar_warning == PipelineOk

\* `all(code == 0 for code in exit_codes.values())`
all_codes_zero == \A n \in DOMAIN exit_codes : exit_codes[n] = 0

\* The two outcomes of the exit-code test, each with its notification.
ret_Decide ==
    /\ pc = "ret_decide"
    /\ emitted' = Emit("run_extraction_task",
                       IF all_codes_zero THEN "success" ELSE "error")
    /\ pc' = "ret_finally"
    /\ UNCHANGED <<offVars, estimate, relay, cfg, archives, copied, procs, built, processes, error_event,
                   failed_files, monitor, nlines, exit_codes, idx,
                   pipeline_success, file_exists, dest, logs, subdir_i,
                   completed, late_writes>>

\* `except Exception as e`
ret_Except ==
    /\ pc = "ret_except"
    /\ emitted' = Emit("run_extraction_task", "error")
    /\ pc' = "ret_finally"
    /\ UNCHANGED <<offVars, estimate, relay, cfg, archives, copied, procs, built, processes, error_event,
                   failed_files, monitor, nlines, exit_codes, idx,
                   pipeline_success, file_exists, dest, logs, subdir_i,
                   completed, late_writes>>

\* `finally`: the uploaded temporary file is removed; the function returns.
ret_Finally ==
    /\ pc = "ret_finally"
    /\ file_exists' = IF cfg.is_uploaded_file THEN FALSE ELSE file_exists
    /\ pc' = "ret_returned"
    /\ UNCHANGED <<offVars, estimate, relay, cfg, archives, copied, procs, built, processes, error_event,
                   failed_files, monitor, nlines, exit_codes, idx,
                   pipeline_success, dest, emitted, logs, subdir_i,
                   completed, late_writes>>

\* A running stage of the restore pipeline exits.
XProcExit(slot) ==
    /\ pc # "ret_returned"
    /\ ProcExit(slot)

NextExtract ==
    \/ bep_Exists
    \/ bep_Cat
    \/ bep_Decrypt
    \/ bep_Zstd
    \/ bep_Tar
    \/ bep_Return
    \/ ret_WaitFinal
    \/ ret_Wait
    \/ ret_Decide
    \/ ret_Except
    \/ ret_Finally
    \/ \E slot \in XSlots : XProcExit(slot)

SpecExtract == InitExtract /\ [][NextExtract]_vars

-----------------------------------------------------------------------------
(***************************************************************************)
(* Specification SpecPv: the thread running monitor_pv_progress reads the  *)
(* lines of the progress meter's diagnostic channel.                       *)
(***************************************************************************)

\* Bound of the progress-monitor specification: lines the monitor reads.
MaxPvLines == 3

\* A line of pv's stderr, by what the three regular expressions capture in
\* it ("" when the expression does not match):
\*   percent  group 1 of (\d+\.?\d*)[%]
\*   speed    group 1 of \[\s*(\d+\.?\d*\w+i?B/s)\s*\]
\*   eta      group 1 of ETA\s+([\d:]+)
PvLines ==
    [percent : {"", "45", "45.2", "100"}, speed : {"", "3.1MiB/s"},
     eta : {"", "00:10"}]

\* f"{float(text):.1f}" on the captured percentages.
format_1f(text) ==
    CASE text = "45" -> "45.0"
      [] text = "45.2" -> "45.2"
      [] text = "100" -> "100.0"

\* The dict progress_data built for a line.
progress_data(line) ==
    [percent |-> IF line.percent # "" THEN format_1f(line.percent)
                 ELSE "0.0",
     speed |-> IF line.speed # "" THEN line.speed ELSE "--",
     eta |-> IF line.eta # "" THEN line.eta ELSE "--:--"]

InitPv ==
    /\ PruneIdle
    /\ XIdle
    /\ margs = <<>>
    /\ mline = <<>>
    /\ mproc = <<>>
    /\ file_processed = <<>>
    /\ cfg = [entry |-> "none"]
    /\ pc = "off"
    /\ procs = <<>>
    /\ built = <<>>
    /\ processes = <<>>
    /\ error_event = FALSE
    /\ failed_files = <<>>
    /\ exit_codes = <<>>
    /\ idx = 0
    /\ pipeline_success = FALSE
    /\ file_exists = FALSE
    /\ dest = 0
    /\ emitted = <<>>
    /\ logs = {}
    /\ subdir_i = 0
    /\ completed = 0
    /\ late_writes = 0
    /\ monitor = "running"
    /\ nlines = 0
    /\ pv_line = <<>>
    /\ progress = <<>>
    /\ estimate = <<>>
    /\ relay = "off"
    /\ archives = {}
    /\ copied = NothingCopied

\* One iteration of the loop: parse the line, build progress_data and
\* `if speed: socketio.emit('progress_update', progress_data)`.
mpp_Line(line) ==
    /\ monitor = "running"
    /\ nlines < MaxPvLines
    /\ nlines' = nlines + 1
    /\ pv_line' = line
    /\ progress' = IF line.speed # "" THEN Append(progress, progress_data(line))
                   ELSE progress
    /\ UNCHANGED <<pruneVars, xVars, monVars, estimate, relay, cfg, archives, copied, pc, procs, built, processes,
                   error_event, failed_files, monitor, exit_codes, idx,
                   pipeline_success, file_exists, dest, emitted, logs,
                   subdir_i, completed, late_writes>>

\* readline returns b'': pv has exited.
mpp_Eof ==
    /\ monitor = "running"
    /\ monitor' = "done"
    /\ UNCHANGED <<pruneVars, xVars, monVars, pvVars, estimate, relay, cfg, archives, copied, pc, procs, built,
                   processes, error_event, failed_files, nlines, exit_codes,
                   idx, pipeline_success, file_exists, dest, emitted, logs,
                   subdir_i, completed, late_writes>>

NextPv ==
    \/ \E line \in PvLines : mpp_Line(line)
    \/ mpp_Eof

SpecPv == InitPv /\ [][NextPv]_vars

\* The snapshot the claim expects for a line: the parsed value of each
\* field (the percentage with one decimal), its placeholder when the field
\* does not match.
ClaimedSnapshot(line) ==
    [percent |-> IF line.percent = "" THEN "0.0" ELSE format_1f(line.percent),
     speed |-> IF line.speed = "" THEN "--" ELSE line.speed,
     eta |-> IF line.eta = "" THEN "--:--" ELSE line.eta]

\* C18 (as claimed): one snapshot is published for every line read, and the
\* latest published snapshot is the one of the line read last.
C18_SnapshotPerLine ==
    /\ Len(progress) = nlines
    /\ nlines > 0 => progress[Len(progress)] = ClaimedSnapshot(pv_line)

-----------------------------------------------------------------------------
(***************************************************************************)
(* Properties of a backup run.                                             *)
(***************************************************************************)

\* run_backup_task has returned to its caller.
Returned == pc = "rbt_returned"

\* The positions of run_backup_task from its except clause to its return.
AfterTry == {"rbt_except", "rbt_finally", "rbt_terminate", "rbt_reap",
             "rbt_returned"}

ByThisRun(m) == m.by = "run_backup_task" /\ m.run = subdir_i

\* Statuses of the terminal notifications the current run_backup_task call
\* has emitted.
RunStatuses ==
    LET mine == SelectSeq(emitted, ByThisRun)
    IN  [i \in 1..Len(mine) |-> mine[i].status]

\* The exit status of a stage is known once a wait() on it has returned.
ExitedWith(slot, code) ==
    procs[slot].reaped /\ procs[slot].returncode = code

ExitedNonZero(slot) ==
    procs[slot].reaped /\ procs[slot].returncode # 0

\* The wait loop of run_backup_task has collected every stage's exit code.
Reconciled ==
    /\ processes # <<>>
    /\ DOMAIN exit_codes = {processes[i].name : i \in 1..Len(processes)}

\* C1 (as claimed): when run_backup_task has returned and a non-archiver
\* stage (pv, zstd or the encryptor) exited with a non-zero code, the run
\* emitted a terminal notification with status error and the output file
\* does not exist.
C1_StageFailureReported ==
    Returned =>
        \A slot \in {"pv", "zstd", "enc"} :
            ExitedNonZero(slot) =>
                /\ RunStatuses = <<"error">>
                /\ ~file_exists

\* C2 (as claimed): when the run has reconciled its exit codes, tar exited
\* with code 1 and every other stage with code 0, the run reports success
\* and has logged the warning.
C2_TarWarningSucceeds ==
    (/\ Returned
     /\ Reconciled
     /\ ExitedWith("tar", 1)
     /\ \A i \in 1..Len(processes) :
          processes[i].slot # "tar" => ExitedWith(processes[i].slot, 0))
    => /\ RunStatuses = <<"success">>
       /\ "tar finished with warnings." \in logs

\* C3: once the abort signal is set, at most one further chunk is written
\* to the destination, and when the cleanup of an aborted run has returned
\* no process spawned for the run is still running: each has exited and
\* been waited on.
C3_AbortStopsCopyAndReaps ==
    /\ late_writes <= 1
    /\ (Returned /\ error_event) =>
           \A slot \in Slots :
               procs[slot].st # "none" =>
                   procs[slot].st = "exited" /\ procs[slot].reaped

\* C3 witness: an aborted run has returned after writing one chunk past the
\* signal and terminating a stage that was still alive.
C3_Witness ==
    /\ Returned
    /\ error_event
    /\ late_writes = 1
    /\ \E slot \in Slots : procs[slot].term /\ procs[slot].reaped

\* C4 (as claimed): whatever the outcome, when run_backup_task has returned
\* no process spawned by the run is still running.
C4_NoProcessOutlivesRun ==
    Returned => \A slot \in Slots : ~Running(slot)

\* The builder has raised: control is in the handler of its caller, which
\* never got the list of processes.
BuilderRaised ==
    \/ pc = "dl_error_400"
    \/ pc = "rbt_except" /\ processes = <<>>

\* C5 (as claimed): a run rejected by build_backup_pipeline for an input or
\* configuration error has spawned no process.
C5_RejectedBeforeSpawn ==
    BuilderRaised => \A slot \in Slots : procs[slot].st = "none"

\* A request whose pipeline was built and whose stages were all waited on.
RanAndCleanedUp ==
    /\ processes # <<>>
    /\ \A i \in 1..Len(processes) : procs[processes[i].slot].reaped

\* C6 (as claimed): a backup run started through any entry point has
\* emitted exactly one terminal notification when it is over.
C6_ExactlyOneTerminalNotification ==
    (pc = "done" /\ RanAndCleanedUp) => Len(emitted) = 1

\* C7 (as claimed): a run during which the abort signal has fired reports
\* failure, never success: run_backup_task emits no success notification
\* while the signal is set.
C7_AbortNeverSuccess ==
    [][error_event =>
         ~(/\ Len(emitted') = Len(emitted) + 1
           /\ emitted'[Len(emitted')].by = "run_backup_task"
           /\ emitted'[Len(emitted')].status = "success")]_vars

\* The run fails by a stage failure (exit codes reconciled and rejected) or
\* by a policy abort (the signal is set).
FailsByStageOrAbort ==
    \/ Reconciled /\ ~PipelineOk
    \/ processes # <<>> /\ error_event

\* C8 (as claimed): when a run that fails by stage failure or policy abort
\* has emitted its terminal error notification, the cleanup is complete:
\* every stage has exited and the output file is gone.
C8_ErrorSurfacedAfterCleanup ==
    (/\ pc \in AfterTry
     /\ FailsByStageOrAbort
     /\ RunStatuses = <<"error">>)
    => /\ \A i \in 1..Len(processes) : ~Alive(processes[i])
       /\ ~file_exists

\* C13: the abort signal is set only under policy 'abort' and only by the
\* archiver's monitor reading a critical line (which ends that monitor); no
\* monitor of another stage sets it, and once set it stays set until the
\* run is over (the next run starts with a new, unset signal).
C13_OnlyArchiverSetsAbort ==
    /\ [](error_event =>
            cfg.policy = "abort" /\ monitor = "done" /\ nlines > 0)
    /\ [][(~error_event /\ error_event') =>
            \E line \in TarLines : line.critical /\ MonitorLine(line)]_vars
    /\ [][(error_event /\ ~error_event') => pc = "rbt_enter"]_vars

\* C13 witness: a run with an encryptor (and so with three stage monitors)
\* has returned with the abort signal set.
C13_Witness ==
    /\ Returned
    /\ error_event
    /\ procs["enc"].st # "none"
    /\ cfg.policy = "abort"


\* The failed-items list carried by the terminal notification of the
\* current run_backup_task call.
NotifiedFailedFiles == SelectSeq(emitted, ByThisRun)[1].failed_files

\* C14 (as claimed): a run that has returned with failed items recorded,
\* the abort signal not set and exit codes meeting the success criterion
\* has reported success, and its notification lists every item the
\* archiver's monitor has recorded for the run.
C14_SuccessListsEveryFailedItem ==
    (/\ Returned
     /\ ~error_event
     /\ failed_files # <<>>
     /\ Reconciled
     /\ PipelineOk)
    => /\ RunStatuses = <<"success">>
       /\ \A i \in 1..Len(failed_files) :
            \E j \in 1..Len(NotifiedFailedFiles) :
                NotifiedFailedFiles[j] = failed_files[i]

\* C17 (as claimed): when a streamed download whose pipeline was built is
\* over, at whatever point the client disconnected (before the first chunk
\* was requested from the generator included), no stage process of the
\* pipeline is still running.
C17_DisconnectCleansUp ==
    (cfg.entry = "download" /\ pc = "done" /\ processes # <<>>) =>
        \A i \in 1..Len(processes) : ~Alive(processes[i])

\* C19: size estimation is advisory.  The estimation step always hands
\* over to the construction of the pipeline, whatever the disk-usage query
\* ended with; after a failed query total_size is 0 and pv is given no
\* size; and with every pruned source in the cache no du subprocess is run.
C19_SizeEstimationAdvisory ==
    /\ [](pc = "bbp_spawn" =>
            /\ estimate.du \in DuFailures =>
                  estimate.total_size = 0 /\ ~pv_cmd_has_size
            /\ estimate.all_cached => estimate.du = "not_run")
    /\ [][pc = "bbp_size" => pc' = "bbp_spawn"]_vars

\* C19 witness: the disk-usage query timed out on a cache miss and the
\* builder is about to spawn the stages.
C19_Witness ==
    /\ pc = "bbp_spawn"
    /\ ~estimate.all_cached
    /\ estimate.du = "timeout"

\* The executor waits in proc.wait() for a stage that is blocked for good.
WaitsForever ==
    /\ pc = "rbt_wait"
    /\ Running(processes[idx].slot)
    /\ Stalled(processes[idx].slot)

\* C20 (as claimed): when the relay thread is over, by completion or by a
\* failed copy, both its ends are closed; and the executor never waits for
\* a stage that is blocked on a pipe nobody reads.
C20_RelayClosesBothEnds ==
    /\ relay \in {"closed", "failed", "failed_stalled"} => relay = "closed"
    /\ ~WaitsForever

\* C22 (as claimed): when encryption is requested and the builder has
\* returned a pipeline, its final stage is an encryptor (age or gpg) and
\* the stage list holds pairwise distinct processes.
C22_EncryptRequestedMeansEncrypted ==
    (cfg.encrypt /\ processes # <<>>) =>
        /\ FinalSlot = "enc"
        /\ Last(processes).name \in {"age", "gpg"}
        /\ \A i, j \in 1..Len(processes) :
              processes[i].slot = processes[j].slot => i = j

\* C24: the bytes written to the destination are at every moment a prefix
\* of what the copy loop has read from the final stage (chunks are written
\* in the order read, so the counts say it); when a run to an output file
\* has returned and reported success the file exists and holds every chunk
\* read up to end-of-stream; and in a download request, whose destination
\* is the response stream, no file is ever removed.
C24_SuccessKeepsCompleteFile ==
    /\ dest <= copied.n
    /\ (Returned /\ cfg.entry \in {"local", "subdirs"}
          /\ "success" \in Range(RunStatuses)) =>
          /\ file_exists
          /\ output_path \in archives
          /\ copied.eof
          /\ dest = copied.n
    /\ cfg.entry = "download" =>
          "Removed incomplete file." \notin logs /\ archives = {}

\* C24 witness: a run to a file has reported success and returned after
\* reading and writing two chunks.
C24_Witness ==
    /\ Returned
    /\ cfg.entry = "local"
    /\ RunStatuses = <<"success">>
    /\ copied = [n |-> 2, eof |-> TRUE]
    /\ dest = 2

\* The subdirectory runs of the request that reported success.
SucceededRuns ==
    {r \in 1..cfg.nsub :
        \E i \in 1..Len(emitted) :
            /\ emitted[i].by = "run_backup_task"
            /\ emitted[i].run = r
            /\ emitted[i].status = "success"}

\* C25 (as claimed): when subdirectory mode has ended with its final
\* message and notification, the count of archives created it reports is
\* the number of subdirectory runs that succeeded, that many archive files
\* exist in the backups directory, and the notification says success only
\* if every subdirectory run succeeded.
C25_SubdirCountMatchesArchives ==
    (pc = "done" /\ cfg.entry = "subdirs" /\ cfg.nsub > 0
       /\ Last(emitted).by = "task_wrapper"
       /\ Last(emitted).status = "success") =>
        /\ completed = Cardinality(SucceededRuns)
        /\ Cardinality(archives) = Cardinality(SucceededRuns)
        /\ Cardinality(SucceededRuns) = cfg.nsub

\* The encryptor process of the pipeline the builder returned, by the name
\* of its method ("none" when no encryptor was spawned).
BackupEncryptor ==
    LET encs == {i \in 1..Len(processes) : processes[i].slot = "enc"}
    IN  IF encs = {} THEN "none"
        ELSE processes[CHOOSE i \in encs : TRUE].name

\* C26: for every configuration build_backup_pipeline has returned a
\* pipeline for, the restore pipeline of the name generate_backup_filename
\* gives that configuration has a decryptor exactly when the backup
\* pipeline has an encryptor, and of the same method.
C26_NamingAgreesWithRestore ==
    processes # <<>> =>
        decryptor_for(generate_backup_filename(SourcesOf(cfg), cfg.encrypt,
                                               cfg.method))
            = BackupEncryptor

\* C26 witness: the builder has returned a pipeline ending in gpg.
C26_Witness ==
    /\ processes # <<>>
    /\ BackupEncryptor = "gpg"
    /\ Last(output_path) = "gpg"

-----------------------------------------------------------------------------
(***************************************************************************)
(* Properties of a restore run.                                            *)
(***************************************************************************)

\* run_extraction_task has returned.
XReturned == pc = "ret_returned"

\* C15: when run_extraction_task has returned it has emitted one terminal
\* notification, and its status is success if and only if the pipeline was
\* built and every stage exited with code 0; any other exit code of any
\* stage, code 1 of tar included, gives status error.
C15_RestoreSuccessIffAllZero ==
    XReturned =>
        /\ Len(emitted) = 1
        /\ emitted[1].status \in {"success", "error"}
        /\ emitted[1].status = "success" <=>
              /\ processes # <<>>
              /\ \A i \in 1..Len(processes) :
                    ExitedWith(processes[i].slot, 0)

\* C15 witness: a restore whose extractor exited with code 1 and whose
\* other stages exited with code 0 has returned.
C15_Witness ==
    /\ XReturned
    /\ ExitedWith("tar", 1)
    /\ \A i \in 1..Len(processes) :
          processes[i].slot # "tar" => ExitedWith(processes[i].slot, 0)
    /\ Len(processes) = 4

\* C16 (as claimed): when run_extraction_task has returned, whatever the
\* outcome, no stage process spawned by the run is still running.
C16_NoProcessOutlivesRestore ==
    XReturned => \A slot \in XSlots : ~Running(slot)

\* C23: the pipeline build_extraction_pipeline returns is the chain reader,
\* decryptor, decompressor, extractor, with the decryptor present exactly
\* when the file name ends with .age (age) or .gpg (gpg); the reader reads
\* the archive, every other stage reads the output of the stage before it,
\* and one monitor has been started for each stage, in stage order.
C23_LinearRestoreChain ==
    processes # <<>> =>
        LET names == [i \in 1..Len(processes) |-> processes[i].name]
            last == cfg.filename[Len(cfg.filename)]
            dec == IF Len(cfg.filename) > 1 /\ last \in {"age", "gpg"}
                   THEN <<last>> ELSE <<>>
        IN  /\ names = <<"cat">> \o dec \o <<"zstd", "tar">>
            /\ processes[1].stdin = "source_path"
            /\ \A i \in 2..Len(processes) :
                  processes[i].stdin = processes[i - 1].slot
            /\ \A i, j \in 1..Len(processes) :
                  processes[i].slot = processes[j].slot => i = j
            /\ xmonitors = names

\* C23 witness: the builder has returned the four-stage pipeline of a
\* gpg-encrypted archive, each stage with its monitor.
C23_Witness ==
    /\ pc = "ret_wait_final"
    /\ cfg.filename = <<"a", "tar", "zst", "gpg">>
    /\ Len(processes) = 4
    /\ processes[2].name = "gpg"
    /\ Len(xmonitors) = 4

=============================================================================
